---- MODULE Spec2Model ----
(***************************************************************************)
(* The order / loyalty / inventory transaction engine of the BeeLoyalty    *)
(* service (src/jollibee_service.py) on top of its document-store client    *)
(* (src/elasticsearch_client.py), as called by the HTTP routes of           *)
(* src/app.py.                                                              *)
(*                                                                          *)
(* The document store keeps, per index, the documents themselves (what a    *)
(* GET /{index}/_doc/{id} returns at once) and the searchable view that     *)
(* POST /{index}/_search reads, which only a refresh brings up to date.     *)
(* Flask serves requests on concurrent threads, so each request is a        *)
(* worker whose steps are its round trips to the store; whatever a handler  *)
(* computes in memory between two round trips belongs to the step of the    *)
(* round trip before it.                                                    *)
(*                                                                          *)
(* Amounts are whole pesos (every price of the repository is one).  The     *)
(* double arithmetic of the code (order_total / 100, base * 1.2,            *)
(* len(bulk_updates) * 0.1) agrees with the exact integer arithmetic used   *)
(* here for every value within the bounds of this model.                    *)
(***************************************************************************)
EXTENDS Integers, Sequences, FiniteSets, TLC

\* ------------------------------------------------------------------ bounds
\* requests served in one run (also the logical clock's last value)
MaxCalls == 2
\* order requests in one create_bulk_transactions call
MaxBulk == 2
\* failed round trips / bulk responses carrying errors in one run
MaxFaults == 1
\* documents one bulk response may report as failed
MaxDocErrors == 1
\* fields of a document handed to bulk_index
MaxFields == 3

Workers == {"w1", "w2"}

\* ------------------------------------------------------------ seed data
Customer(tier, total_points, earned, redeemed, annual, orders, at) ==
    [tier |-> tier, total_points |-> total_points,
     points_earned_ytd |-> earned, points_redeemed_ytd |-> redeemed,
     annual_spending |-> annual, total_orders |-> orders, last_activity |-> at]

\* two of the five sample customers
SeedCustomers ==
    [c \in {"melvin001", "carms001"} |->
        IF c = "melvin001"
        THEN Customer("BeeBuddy", 324, 680, 356, 980, 28, 0)
        ELSE Customer("BeeFan", 1567, 2890, 1323, 4100, 35, 0)]

\* faulty variant: the Critical branch is missing
StockStatusNoCritical(stock, reorder_point) ==
    IF stock <= reorder_point THEN "Low"
    ELSE IF stock <= reorder_point * 2 THEN "Adequate"
    ELSE "Good"

\* the threshold rule of the inventory status
StockStatus(stock, reorder_point) ==
    IF 2 * stock <= reorder_point THEN "Critical"
    ELSE IF stock <= reorder_point THEN "Low"
    ELSE IF stock <= reorder_point * 2 THEN "Adequate"
    ELSE "Good"

\* predicted_stockout_date = at + num/den days
Stockout(at, num, den) == [at |-> at, num |-> num, den |-> den]

MaxOf(a, b) == IF a >= b THEN a ELSE b

InventoryItem(store_id, item_name, stock, reorder_point, daily, at) ==
    [store_id |-> store_id, item_name |-> item_name, current_stock |-> stock,
     reorder_point |-> reorder_point, daily_consumption |-> daily,
     status |-> StockStatus(stock, reorder_point),
     predicted_stockout_date |->
        IF daily > 0 THEN Stockout(at, MaxOf(0, stock - reorder_point), daily)
        ELSE Stockout(at, 30, 1),
     timestamp |-> at]

\* two inventory records of store_001 (max_stock 100, reorder_point 30)
SeedInventory ==
    [i \in {"inv_store_001_04", "inv_store_001_08"} |->
        IF i = "inv_store_001_04"
        THEN InventoryItem("store_001", "Yumburger Solo", 20, 30, 20, 0)
        ELSE InventoryItem("store_001", "Regular Fries", 80, 30, 25, 0)]

\* --------------------------------------------------------------- inputs
Line(name, price, quantity) == [name |-> name, price |-> price, quantity |-> quantity]

Order(customer_id, items, channel) ==
    [customer_id |-> customer_id, items |-> items, channel |-> channel,
     store_id |-> "store_001", payment_method |-> "cash"]

\* the order requests a caller sends: two-line orders, an item with no
\* inventory record, a negative quantity, an unknown customer, no items, no
\* customer id, an item with no record whose name shares a word with a record
OrderRequests ==
    { Order("melvin001", <<Line("Yumburger Solo", 40, 30), Line("Pineapple Juice", 64, 1)>>, "dine-in"),
      Order("carms001", <<Line("Regular Fries", 50, 2), Line("Yumburger Solo", 40, 30)>>, "app"),
      Order("melvin001", <<Line("Regular Fries", 50, -55)>>, "delivery"),
      Order("ghost001", <<Line("Pineapple Juice", 64, 1)>>, "dine-in"),
      Order("melvin001", <<>>, "dine-in"),
      Order("", <<Line("Pineapple Juice", 64, 1)>>, "dine-in"),
      Order("carms001", <<Line("Large Fries", 75, 1)>>, "app") }

\* the order requests a bulk simulation is made of
BulkOrders == {r \in OrderRequests : Len(r.items) = 2 \/ r.customer_id = "ghost001"}

BulkRequests == UNION {[1..n -> BulkOrders] : n \in 0..MaxBulk}

RedeemRequests ==
    { [customer_id |-> "melvin001", points |-> 200],
      [customer_id |-> "melvin001", points |-> 400],
      [customer_id |-> "melvin001", points |-> 0],
      [customer_id |-> "melvin001", points |-> -50],
      [customer_id |-> "ghost001", points |-> 200] }

\* ------------------------------------------------------- pure functions
\* Python's int() of a quotient: rounds toward zero
Trunc(n, d) == IF n >= 0 THEN n \div d ELSE -((-n) \div d)

calculate_points(order_total, channel, customer_tier) ==
    LET base_points ==
            IF channel = "dine-in" THEN Trunc(order_total, 100) * 10
            ELSE IF channel \in {"app", "delivery"} THEN Trunc(order_total, 100) * 15
            ELSE 0
        tenths ==
            IF customer_tier = "BeeFan" THEN 12
            ELSE IF customer_tier = "BeeElite" THEN 15
            ELSE 10
    IN Trunc(base_points * tenths, 10)

\* faulty variant: the two thresholds are tested in the wrong order
check_tier_upgrade_misordered(annual_spending) ==
    IF annual_spending >= 2000 THEN "BeeFan"
    ELSE IF annual_spending >= 5000 THEN "BeeElite"
    ELSE "BeeBuddy"

check_tier_upgrade(annual_spending) ==
    IF annual_spending >= 5000 THEN "BeeElite"
    ELSE IF annual_spending >= 2000 THEN "BeeFan"
    ELSE "BeeBuddy"

\* sum(item['price'] * item['quantity'] for item in items), left to right
RECURSIVE SumItems(_, _, _)
SumItems(items, k, acc) ==
    IF k > Len(items) THEN acc
    ELSE SumItems(items, k + 1, acc + items[k].price * items[k].quantity)

\* faulty variant: the total counts every line once, whatever its quantity
OrderTotalOfPrices(items) == SumItems([k \in 1..Len(items) |-> [items[k] EXCEPT !.quantity = 1]], 1, 0)

OrderTotal(items) == SumItems(items, 1, 0)

\* ------------------------------------------------------------------ state
VARIABLES
    cust_docs,      \* customers index: id -> document, as GET /_doc/{id} reads it
    cust_index,     \* customers index: id -> document, as _search reads it
    inv_docs,       \* inventory index, documents
    inv_index,      \* inventory index, searchable view
    txn_docs,       \* transactions index: the set of transaction documents
    pc,             \* worker -> where its request stands
    call,           \* worker -> the request it serves
    mem,            \* worker -> the handler's local variables
    batch,          \* worker -> the bulk request it sent last and the store's answer
    result,         \* worker -> what the handler returned
    io,             \* worker -> round trips of the request, per kind
    clock,          \* requests accepted so far; a request's "now" is its ordinal
    uuid,           \* serial of the last uuid4 drawn
    writes,         \* write requests the store has applied so far
    faults,         \* failed round trips so far
    loaded          \* the last bulk_index call: its arguments, ids, outcome

engine_vars == <<cust_docs, cust_index, inv_docs, inv_index, txn_docs,
                 pc, call, mem, batch, result, io, clock, uuid, writes, faults>>

vars == <<cust_docs, cust_index, inv_docs, inv_index, txn_docs,
          pc, call, mem, batch, result, io, clock, uuid, writes, faults, loaded>>

store_vars == <<cust_docs, cust_index, inv_docs, inv_index, txn_docs>>

EmptyMap == [x \in {} |-> 0]

NoTransaction == <<"", 0>>

NoData ==
    [transaction_id |-> NoTransaction, order_total |-> 0, points_earned |-> 0,
     tier_upgraded |-> FALSE, new_tier |-> "", new_balance |-> 0,
     transactions_created |-> 0, total_revenue |-> 0]

Result(ok, message, data) == [ok |-> ok, message |-> message, data |-> data]

NoResult == Result(FALSE, "", NoData)

NoCall == [op |-> "none", at |-> 0, orders |-> <<>>, customer_id |-> "", points |-> 0]

NoMem ==
    [customers |-> EmptyMap, fetched |-> EmptyMap, touched |-> <<>>, txns |-> <<>>,
     lines |-> <<>>, inv_updates |-> <<>>, reply |-> NoData]

NoBatch ==
    [sent |-> FALSE, docs |-> <<>>, http_ok |-> FALSE, errors |-> {}, success |-> FALSE,
     seq |-> 0]

NoLoad ==
    [index_name |-> "", documents |-> <<>>, ids |-> <<>>, outcome |-> "none",
     stored |-> EmptyMap]

NoIo == [gets |-> 0, searches |-> 0, bulks |-> 0, refreshes |-> 0, puts |-> 0, failed |-> 0]

Init ==
    /\ cust_docs = SeedCustomers
    /\ cust_index = SeedCustomers
    /\ inv_docs = SeedInventory
    /\ inv_index = SeedInventory
    /\ txn_docs = {}
    /\ pc = [w \in Workers |-> "idle"]
    /\ call = [w \in Workers |-> NoCall]
    /\ mem = [w \in Workers |-> NoMem]
    /\ batch = [w \in Workers |-> NoBatch]
    /\ result = [w \in Workers |-> NoResult]
    /\ io = [w \in Workers |-> NoIo]
    /\ clock = 0
    /\ uuid = 0
    /\ writes = 0
    /\ faults = 0
    /\ loaded = NoLoad

\* ------------------------------------------------------- the store client
\* ElasticsearchClient.request: the round trip answers, or fails and yields None
RoundTrips == {"answered"} \cup (IF faults < MaxFaults THEN {"failed"} ELSE {})

\* faulty variant: an id that is not in the index yields an empty account
get_document_or_new(docs, doc_id, trip) ==
    IF trip # "answered" THEN <<>>
    ELSE IF doc_id \in DOMAIN docs THEN <<docs[doc_id]>>
    ELSE <<[tier |-> "BeeBuddy", total_points |-> 0, points_earned_ytd |-> 0,
            points_redeemed_ytd |-> 0, annual_spending |-> 0, total_orders |-> 0,
            last_activity |-> 0]>>

\* get_document: the document as a sequence of one, or of none (None)
get_document(docs, doc_id, trip) ==
    IF trip = "answered" /\ doc_id \in DOMAIN docs THEN <<docs[doc_id]>> ELSE <<>>

\* _fetch_customers_batch: the terms query on _id, read from the searchable view
FetchCustomersBatch(customer_ids, trip) ==
    IF trip = "answered"
    THEN [c \in customer_ids \cap DOMAIN cust_index |-> cust_index[c]]
    ELSE EmptyMap

\* the terms the standard analyzer makes of an item name (item_name is a
\* text field)
Terms(item_name) ==
    CASE item_name = "Yumburger Solo" -> {"yumburger", "solo"}
      [] item_name = "Regular Fries" -> {"regular", "fries"}
      [] item_name = "Large Fries" -> {"large", "fries"}
      [] item_name = "Pineapple Juice" -> {"pineapple", "juice"}
      [] OTHER -> {}

\* the hits of the inventory lookup: the store_id term, and the match on
\* item_name, which a record passes when its name has a term of the ordered
\* name (no ordered name shares a term with two records)
InventoryHits(store_id, item_name, trip) ==
    IF trip = "answered"
    THEN {i \in DOMAIN inv_index :
            /\ inv_index[i].store_id = store_id
            /\ Terms(inv_index[i].item_name) \cap Terms(item_name) # {}}
    ELSE {}

\* faulty variant: one refresh request per index
RefreshPathsPerIndex(index_names) == {<<index_names[k]>> : k \in 1..Len(index_names)}

\* refresh_index: the requests it sends, each the list of indices of its path
\* (the names are joined into the path of one request)
RefreshPaths(index_names) == {index_names}

\* ------------------------------------------------------ account mutation
\* faulty variant: the order is not counted
UpdateCustomerDataUncounted(customer, order_total, points_earned, now) ==
    LET new_annual == customer.annual_spending + order_total
    IN [customer EXCEPT
            !.total_points = @ + points_earned,
            !.points_earned_ytd = @ + points_earned,
            !.annual_spending = new_annual,
            !.tier = check_tier_upgrade(new_annual),
            !.last_activity = now]

UpdateCustomerData(customer, order_total, points_earned, now) ==
    LET new_annual == customer.annual_spending + order_total
    IN [customer EXCEPT
            !.total_points = @ + points_earned,
            !.points_earned_ytd = @ + points_earned,
            !.annual_spending = new_annual,
            !.tier = check_tier_upgrade(new_annual),
            !.last_activity = now,
            !.total_orders = @ + 1]

\* faulty variant: no redemption is refused for its amount
InsufficientPointsUnchecked(current_points, points_to_redeem) == FALSE

\* faulty variant: the balance check compares the wrong way round
InsufficientPointsReversed(current_points, points_to_redeem) == current_points > points_to_redeem

InsufficientPoints(current_points, points_to_redeem) == current_points < points_to_redeem

\* faulty variant: the redeemed points are not added to the year's tally
RedeemCustomerDataUntallied(customer, points_to_redeem, now) ==
    [customer EXCEPT
        !.total_points = @ - points_to_redeem,
        !.last_activity = now]

\* faulty variant: a redemption is counted as an order
RedeemCustomerDataCounted(customer, points_to_redeem, now) ==
    [customer EXCEPT
        !.total_points = @ - points_to_redeem,
        !.points_redeemed_ytd = @ + points_to_redeem,
        !.last_activity = now,
        !.total_orders = @ + 1]

\* redeem_points: the customer document it sends to update_document
RedeemCustomerData(customer, points_to_redeem, now) ==
    [customer EXCEPT
        !.total_points = @ - points_to_redeem,
        !.points_redeemed_ytd = @ + points_to_redeem,
        !.last_activity = now]

TransactionId(customer_id, serial) == <<customer_id, serial>>

TransactionData(transaction_id, req, order_total, points_earned, now) ==
    [transaction_id |-> transaction_id, customer_id |-> req.customer_id,
     store_id |-> req.store_id, timestamp |-> now, channel |-> req.channel,
     items |-> req.items, order_total |-> order_total,
     points_earned |-> points_earned, points_redeemed |-> 0,
     payment_method |-> req.payment_method]

\* faulty variant: only the first line of an order is looked up
OrderLinesFirstOnly(req) ==
    IF req.items = <<>> THEN <<>>
    ELSE <<[store_id |-> req.store_id, name |-> req.items[1].name,
            quantity |-> req.items[1].quantity]>>

\* the order lines whose inventory _prepare_inventory_updates looks up
OrderLines(req) ==
    [k \in 1..Len(req.items) |->
        [store_id |-> req.store_id, name |-> req.items[k].name,
         quantity |-> req.items[k].quantity]]

\* ------------------------------------------------------------- inventory
\* faulty variant: the decrement is not floored
NewStockUnfloored(current_stock, quantity) == current_stock - quantity

NewStock(current_stock, quantity) == MaxOf(0, current_stock - quantity)

UpdateInventoryItem(inventory_item, quantity, now) ==
    LET new_stock == NewStock(inventory_item.current_stock, quantity)
        reorder_point == inventory_item.reorder_point
        daily_consumption == inventory_item.daily_consumption
    IN [inventory_item EXCEPT
            !.current_stock = new_stock,
            !.timestamp = now,
            !.status = StockStatus(new_stock, reorder_point),
            !.predicted_stockout_date =
                IF daily_consumption > 0
                THEN Stockout(now, MaxOf(0, new_stock - reorder_point), daily_consumption)
                ELSE @]

\* ------------------------------------------------------------ bulk write
BulkEntry(index, id, doc) == [index |-> index, id |-> id, doc |-> doc]

\* faulty variant: a customer document is added for every order, not for every customer
BulkDocsPerOrder(m) ==
    [k \in 1..Len(m.txns) |-> BulkEntry("transactions", m.txns[k].transaction_id, m.txns[k])]
    \o [k \in 1..Len(m.txns) |->
            BulkEntry("customers", m.txns[k].customer_id, m.customers[m.txns[k].customer_id])]
    \o m.inv_updates

\* the (action, document) pairs of a request, in the order they are sent
BulkDocs(m) ==
    [k \in 1..Len(m.txns) |-> BulkEntry("transactions", m.txns[k].transaction_id, m.txns[k])]
    \o [k \in 1..Len(m.touched) |-> BulkEntry("customers", m.touched[k], m.customers[m.touched[k]])]
    \o m.inv_updates

\* the store applies the actions that do not fail, in order
RECURSIVE ApplyBulk(_, _, _, _)
ApplyBulk(docs, k, errors, store) ==
    IF k > Len(docs) THEN store
    ELSE IF k \in errors THEN ApplyBulk(docs, k + 1, errors, store)
    ELSE LET d == docs[k]
         IN ApplyBulk(docs, k + 1, errors,
                IF d.index = "customers"
                THEN [store EXCEPT !.customers = (d.id :> d.doc) @@ @]
                ELSE IF d.index = "inventory"
                THEN [store EXCEPT !.inventory = (d.id :> d.doc) @@ @]
                ELSE [store EXCEPT !.transactions =
                        {t \in @ : t.transaction_id # d.id} \cup {d.doc}])

\* the answers of POST /_bulk: no answer or a status other than 200, or 200
\* with the set of actions that failed; a body with no action is rejected
BulkResponses(docs) ==
    (IF faults < MaxFaults \/ docs = <<>> THEN {[http_ok |-> FALSE, errors |-> {}]} ELSE {})
    \cup {[http_ok |-> TRUE, errors |-> e] :
            e \in {x \in SUBSET (1..Len(docs)) :
                    /\ docs # <<>>
                    /\ Cardinality(x) <= MaxDocErrors
                    /\ (x # {} => faults < MaxFaults)}}

\* _execute_bulk_update's verdict on a 200 answer; bulk_lines = len(bulk_updates)
BulkVerdict(bulk_lines, errors) ==
    IF errors > 0 THEN 10 * errors < bulk_lines ELSE TRUE

\* ------------------------------------------------------------- requests
\* the create_transaction route: not customer_id or not items
MissingRequiredFields(customer_id, items) == customer_id = "" \/ items = <<>>

\* faulty variant: only a negative amount is refused
InvalidPointsAmountBelowZero(points_to_redeem) == points_to_redeem < 0

\* the redeem route: points_to_redeem <= 0
InvalidPointsAmount(points_to_redeem) == points_to_redeem <= 0

Accepts(w) == pc[w] \in {"idle", "done"} /\ clock < MaxCalls

Call(op, at, orders, customer_id, points) ==
    [op |-> op, at |-> at, orders |-> orders, customer_id |-> customer_id, points |-> points]

Spend(trip) == IF trip = "failed" THEN faults + 1 ELSE faults

\* what a round trip adds to the request's count of failed ones
Failed(trip) == IF trip = "failed" THEN 1 ELSE 0

\* POST /api/transactions: the route's validation, then create_transaction up
\* to the hand-over to _batch_transaction_updates
CreateTransaction(w, req) ==
    /\ Accepts(w)
    /\ clock' = clock + 1
    /\ call' = [call EXCEPT ![w] = Call("create_transaction", clock + 1, <<req>>, req.customer_id, 0)]
    /\ batch' = [batch EXCEPT ![w] = NoBatch]
    /\ IF MissingRequiredFields(req.customer_id, req.items)
       THEN /\ result' = [result EXCEPT ![w] = Result(FALSE, "Missing required fields", NoData)]
            /\ mem' = [mem EXCEPT ![w] = NoMem]
            /\ io' = [io EXCEPT ![w] = NoIo]
            /\ pc' = [pc EXCEPT ![w] = "done"]
            /\ UNCHANGED <<uuid, faults>>
       ELSE \E trip \in RoundTrips :
              LET got == get_document(cust_docs, req.customer_id, trip)
              IN /\ faults' = Spend(trip)
                 /\ io' = [io EXCEPT ![w] = [NoIo EXCEPT !.gets = 1, !.failed = Failed(trip)]]
                 /\ pc' = [pc EXCEPT ![w] = IF got = <<>> THEN "done" ELSE "lookup"]
                 /\ IF got = <<>>
                    THEN /\ result' = [result EXCEPT ![w] = Result(FALSE, "Customer not found", NoData)]
                         /\ mem' = [mem EXCEPT ![w] = NoMem]
                         /\ UNCHANGED uuid
                    ELSE LET customer == got[1]
                             order_total == OrderTotal(req.items)
                             customer_tier == customer.tier
                             points_earned == calculate_points(order_total, req.channel, customer_tier)
                             transaction_id == TransactionId(req.customer_id, uuid + 1)
                             updated == UpdateCustomerData(customer, order_total, points_earned, clock + 1)
                             new_tier == updated.tier
                             tier_upgraded == new_tier # customer_tier
                         IN /\ uuid' = uuid + 1
                            /\ result' = [result EXCEPT ![w] = NoResult]
                            /\ mem' = [mem EXCEPT ![w] =
                                 [customers |-> (req.customer_id :> updated),
                                  fetched |-> (req.customer_id :> customer),
                                  touched |-> <<req.customer_id>>,
                                  txns |-> <<TransactionData(transaction_id, req, order_total,
                                                             points_earned, clock + 1)>>,
                                  lines |-> OrderLines(req),
                                  inv_updates |-> <<>>,
                                  reply |-> [NoData EXCEPT
                                      !.transaction_id = transaction_id,
                                      !.order_total = order_total,
                                      !.points_earned = points_earned,
                                      !.tier_upgraded = tier_upgraded,
                                      !.new_tier = IF tier_upgraded THEN new_tier ELSE customer_tier]]]
    /\ UNCHANGED <<store_vars, writes, loaded>>

\* faulty variant: the tier of a customer is not advanced between the orders
\* of one request
RECURSIVE ProcessOrdersTierKept(_, _, _, _)
ProcessOrdersTierKept(reqs, i, acc, now) ==
    IF i > Len(reqs) THEN acc
    ELSE LET req == reqs[i]
         IN IF req.customer_id \notin DOMAIN acc.customers
            THEN ProcessOrdersTierKept(reqs, i + 1, acc, now)
            ELSE LET customer == acc.customers[req.customer_id]
                     order_total == OrderTotal(req.items)
                     points_earned == calculate_points(order_total, req.channel, customer.tier)
                     transaction_id == TransactionId(req.customer_id, acc.uuid + 1)
                 IN ProcessOrdersTierKept(reqs, i + 1,
                        [customers |-> [acc.customers EXCEPT ![req.customer_id] =
                                [UpdateCustomerData(customer, order_total, points_earned, now)
                                    EXCEPT !.tier = customer.tier]],
                         touched |-> IF \E k \in 1..Len(acc.touched) : acc.touched[k] = req.customer_id
                                     THEN acc.touched ELSE Append(acc.touched, req.customer_id),
                         txns |-> Append(acc.txns, TransactionData(transaction_id, req, order_total,
                                                                   points_earned, now)),
                         lines |-> acc.lines \o OrderLines(req),
                         total_revenue |-> acc.total_revenue + order_total,
                         uuid |-> acc.uuid + 1],
                        now)

\* the loop of create_bulk_transactions over the requests, on the fetched
\* customers: what it computes in memory for the requests from the i-th on
RECURSIVE ProcessOrders(_, _, _, _)
ProcessOrders(reqs, i, acc, now) ==
    IF i > Len(reqs) THEN acc
    ELSE LET req == reqs[i]
         IN IF req.customer_id \notin DOMAIN acc.customers
            THEN ProcessOrders(reqs, i + 1, acc, now)
            ELSE LET customer == acc.customers[req.customer_id]
                     order_total == OrderTotal(req.items)
                     points_earned == calculate_points(order_total, req.channel, customer.tier)
                     transaction_id == TransactionId(req.customer_id, acc.uuid + 1)
                 IN ProcessOrders(reqs, i + 1,
                        [customers |-> [acc.customers EXCEPT ![req.customer_id] =
                                UpdateCustomerData(customer, order_total, points_earned, now)],
                         touched |-> IF \E k \in 1..Len(acc.touched) : acc.touched[k] = req.customer_id
                                     THEN acc.touched ELSE Append(acc.touched, req.customer_id),
                         txns |-> Append(acc.txns, TransactionData(transaction_id, req, order_total,
                                                                   points_earned, now)),
                         lines |-> acc.lines \o OrderLines(req),
                         total_revenue |-> acc.total_revenue + order_total,
                         uuid |-> acc.uuid + 1],
                        now)

\* create_bulk_transactions up to the first inventory lookup
CreateBulkTransactions(w, reqs) ==
    /\ Accepts(w)
    /\ clock' = clock + 1
    /\ call' = [call EXCEPT ![w] = Call("create_bulk_transactions", clock + 1, reqs, "", 0)]
    /\ batch' = [batch EXCEPT ![w] = NoBatch]
    /\ IF reqs = <<>>
       THEN /\ result' = [result EXCEPT ![w] = Result(FALSE, "No transactions to process", NoData)]
            /\ mem' = [mem EXCEPT ![w] = NoMem]
            /\ io' = [io EXCEPT ![w] = NoIo]
            /\ pc' = [pc EXCEPT ![w] = "done"]
            /\ UNCHANGED <<uuid, faults>>
       ELSE \E trip \in RoundTrips :
              LET customer_ids == {reqs[k].customer_id : k \in 1..Len(reqs)}
                  customers_data == FetchCustomersBatch(customer_ids, trip)
                  done == ProcessOrders(reqs, 1,
                            [customers |-> customers_data, touched |-> <<>>, txns |-> <<>>,
                             lines |-> <<>>, total_revenue |-> 0, uuid |-> uuid],
                            clock + 1)
              IN /\ faults' = Spend(trip)
                 /\ io' = [io EXCEPT ![w] = [NoIo EXCEPT !.searches = 1, !.failed = Failed(trip)]]
                 /\ uuid' = done.uuid
                 /\ result' = [result EXCEPT ![w] = NoResult]
                 /\ mem' = [mem EXCEPT ![w] =
                      [customers |-> done.customers, fetched |-> customers_data,
                       touched |-> done.touched, txns |-> done.txns, lines |-> done.lines,
                       inv_updates |-> <<>>,
                       reply |-> [NoData EXCEPT
                           !.transactions_created = Len(done.txns),
                           !.total_revenue = done.total_revenue]]]
                 /\ pc' = [pc EXCEPT ![w] = IF done.lines = <<>> THEN "write" ELSE "lookup"]
    /\ UNCHANGED <<store_vars, writes, loaded>>

\* _prepare_inventory_updates, one order line: the lookup and the update it
\* adds to the batch
PrepareInventoryUpdates(w) ==
    /\ pc[w] = "lookup"
    /\ \E trip \in RoundTrips :
         LET line == Head(mem[w].lines)
             rest == Tail(mem[w].lines)
             hits == InventoryHits(line.store_id, line.name, trip)
         IN /\ faults' = Spend(trip)
            /\ io' = [io EXCEPT ![w].searches = @ + 1, ![w].failed = @ + Failed(trip)]
            /\ pc' = [pc EXCEPT ![w] = IF rest = <<>> THEN "write" ELSE "lookup"]
            /\ IF hits = {}
               THEN mem' = [mem EXCEPT ![w].lines = rest]
               ELSE \E inventory_id \in hits :
                      mem' = [mem EXCEPT
                                ![w].lines = rest,
                                ![w].inv_updates = Append(@,
                                    BulkEntry("inventory", inventory_id,
                                        UpdateInventoryItem(inv_index[inventory_id],
                                                            line.quantity, call[w].at)))]
    /\ UNCHANGED <<store_vars, call, batch, result, clock, uuid, writes, loaded>>

\* _execute_bulk_update on the batch of the request, and what the caller
\* returns when it fails
ExecuteBulkUpdate(w) ==
    /\ pc[w] = "write"
    /\ LET docs == BulkDocs(mem[w])
       IN \E resp \in BulkResponses(docs) :
            LET success == resp.http_ok /\ BulkVerdict(2 * Len(docs), Cardinality(resp.errors))
                before == [customers |-> cust_docs, inventory |-> inv_docs, transactions |-> txn_docs]
                after == IF resp.http_ok THEN ApplyBulk(docs, 1, resp.errors, before) ELSE before
            IN /\ cust_docs' = after.customers
               /\ inv_docs' = after.inventory
               /\ txn_docs' = after.transactions
               /\ faults' = IF resp.errors # {} \/ (~resp.http_ok /\ docs # <<>>)
                            THEN faults + 1 ELSE faults
               /\ writes' = IF resp.http_ok THEN writes + 1 ELSE writes
               /\ batch' = [batch EXCEPT ![w] =
                    [sent |-> TRUE, docs |-> docs, http_ok |-> resp.http_ok,
                     errors |-> resp.errors, success |-> success, seq |-> writes']]
               /\ io' = [io EXCEPT ![w].bulks = @ + 1,
                                    ![w].failed = IF ~resp.http_ok /\ docs # <<>> THEN @ + 1 ELSE @]
               /\ pc' = [pc EXCEPT ![w] = IF success THEN "refresh" ELSE "done"]
               /\ result' = [result EXCEPT ![w] =
                    IF success THEN @
                    ELSE IF call[w].op = "create_transaction"
                    THEN Result(FALSE, "Failed to process transaction", NoData)
                    ELSE Result(FALSE, "Bulk update failed", NoData)]
    /\ UNCHANGED <<cust_index, inv_index, call, mem, clock, uuid, loaded>>

\* refresh_index after a successful batch, and the handler's return
RefreshIndex(w) ==
    /\ pc[w] = "refresh"
    /\ \E trip \in RoundTrips :
         /\ faults' = Spend(trip)
         /\ cust_index' = IF trip = "answered" THEN cust_docs ELSE cust_index
         /\ inv_index' = IF trip = "answered" THEN inv_docs ELSE inv_index
         /\ io' = [io EXCEPT
                ![w].refreshes =
                    @ + Cardinality(RefreshPaths(<<"transactions", "customers", "inventory">>)),
                ![w].failed = @ + Failed(trip)]
    /\ pc' = [pc EXCEPT ![w] = "done"]
    /\ result' = [result EXCEPT ![w] =
         Result(TRUE,
                IF call[w].op = "create_transaction" THEN "Transaction successful" ELSE "",
                mem[w].reply)]
    /\ UNCHANGED <<cust_docs, inv_docs, txn_docs, call, mem, batch, clock, uuid, writes, loaded>>

\* POST /api/customers/{id}/redeem: the route's validation, then redeem_points
\* up to update_document
RedeemPoints(w, rq) ==
    /\ Accepts(w)
    /\ clock' = clock + 1
    /\ call' = [call EXCEPT ![w] = Call("redeem_points", clock + 1, <<>>, rq.customer_id, rq.points)]
    /\ batch' = [batch EXCEPT ![w] = NoBatch]
    /\ IF InvalidPointsAmount(rq.points)
       THEN /\ result' = [result EXCEPT ![w] = Result(FALSE, "Invalid points amount", NoData)]
            /\ mem' = [mem EXCEPT ![w] = NoMem]
            /\ io' = [io EXCEPT ![w] = NoIo]
            /\ pc' = [pc EXCEPT ![w] = "done"]
            /\ UNCHANGED faults
       ELSE \E trip \in RoundTrips :
              LET got == get_document(cust_docs, rq.customer_id, trip)
              IN /\ faults' = Spend(trip)
                 /\ io' = [io EXCEPT ![w] = [NoIo EXCEPT !.gets = 1, !.failed = Failed(trip)]]
                 /\ IF got = <<>>
                    THEN /\ result' = [result EXCEPT ![w] = Result(FALSE, "Customer not found", NoData)]
                         /\ mem' = [mem EXCEPT ![w] = NoMem]
                         /\ pc' = [pc EXCEPT ![w] = "done"]
                    ELSE IF InsufficientPoints(got[1].total_points, rq.points)
                    THEN /\ result' = [result EXCEPT ![w] = Result(FALSE, "Insufficient points", NoData)]
                         /\ mem' = [mem EXCEPT ![w] = [NoMem EXCEPT !.fetched = (rq.customer_id :> got[1])]]
                         /\ pc' = [pc EXCEPT ![w] = "done"]
                    ELSE /\ result' = [result EXCEPT ![w] = NoResult]
                         /\ mem' = [mem EXCEPT ![w] =
                              [NoMem EXCEPT
                                 !.fetched = (rq.customer_id :> got[1]),
                                 !.customers = (rq.customer_id :>
                                     RedeemCustomerData(got[1], rq.points, clock + 1)),
                                 !.reply = [NoData EXCEPT
                                     !.new_balance = got[1].total_points - rq.points]]]
                         /\ pc' = [pc EXCEPT ![w] = "put"]
    /\ UNCHANGED <<store_vars, uuid, writes, loaded>>

\* update_document of the redeemed customer, and redeem_points' return
UpdateDocument(w) ==
    /\ pc[w] = "put"
    /\ \E trip \in RoundTrips :
         /\ faults' = Spend(trip)
         /\ cust_docs' = IF trip = "answered"
                         THEN (call[w].customer_id :> mem[w].customers[call[w].customer_id]) @@ cust_docs
                         ELSE cust_docs
         /\ writes' = IF trip = "answered" THEN writes + 1 ELSE writes
         /\ result' = [result EXCEPT ![w] =
              IF trip = "answered"
              THEN Result(TRUE, "Successfully redeemed", mem[w].reply)
              ELSE Result(FALSE, "Failed to update customer points", NoData)]
         /\ io' = [io EXCEPT ![w].puts = @ + 1, ![w].failed = @ + Failed(trip)]
    /\ pc' = [pc EXCEPT ![w] = "done"]
    /\ UNCHANGED <<cust_index, inv_docs, inv_index, txn_docs, call, mem, batch, clock, uuid, loaded>>

\* the store's own periodic refresh (refresh_interval of the indices)
PeriodicRefresh ==
    /\ cust_index # cust_docs \/ inv_index # inv_docs
    /\ cust_index' = cust_docs
    /\ inv_index' = inv_docs
    /\ UNCHANGED <<cust_docs, inv_docs, txn_docs, pc, call, mem, batch, result, io,
                   clock, uuid, writes, faults, loaded>>

Next ==
    \/ \E w \in Workers, req \in OrderRequests : CreateTransaction(w, req)
    \/ \E w \in Workers, reqs \in BulkRequests : CreateBulkTransactions(w, reqs)
    \/ \E w \in Workers, rq \in RedeemRequests : RedeemPoints(w, rq)
    \/ \E w \in Workers : PrepareInventoryUpdates(w)
    \/ \E w \in Workers : ExecuteBulkUpdate(w)
    \/ \E w \in Workers : RefreshIndex(w)
    \/ \E w \in Workers : UpdateDocument(w)
    \/ PeriodicRefresh

Spec == Init /\ [][Next]_vars

\* ------------------------------------------------ bulk_index and its ids
\* the indices of Config, and one that has no priority list of its own
IndexNames == {"inventory", "customers", "transactions", "stores", "menu", "weather"}

\* field names of the documents, and the value each carries when it is set
DocKeys ==
    {"id", "inventory_id", "store_id", "customer_id", "transaction_id", "item_id", "item_name"}

ValueOf ==
    [k \in DocKeys |->
        CASE k = "id" -> "7"
          [] k = "inventory_id" -> "inv_store_001_04"
          [] k = "store_id" -> "store_001"
          [] k = "customer_id" -> "melvin001"
          [] k = "transaction_id" -> "txn_melvin001_1"
          [] k = "item_id" -> "menu_04"
          [] k = "item_name" -> "Yumburger Solo"]

Field(key, value) == [key |-> key, value |-> value]

\* a field of a document, set or empty
Fields == UNION {{Field(k, ""), Field(k, ValueOf[k])} : k \in DocKeys}

\* a document: its fields in the order of the dict
Documents ==
    {d \in UNION {[1..n -> Fields] : n \in 0..MaxFields} :
        \A i, j \in 1..Len(d) : i # j => d[i].key # d[j].key}

\* inventory records of one store, with and without an inventory_id
InventoryDocuments ==
    { <<Field("inventory_id", "inv_store_001_04"), Field("store_id", "store_001"),
        Field("item_name", "Yumburger Solo")>>,
      <<Field("inventory_id", "inv_store_001_08"), Field("store_id", "store_001"),
        Field("item_name", "Regular Fries")>>,
      <<Field("store_id", "store_001"), Field("item_name", "Yumburger Solo")>>,
      <<Field("store_id", "store_001"), Field("item_name", "Regular Fries")>>,
      <<Field("item_name", "Regular Fries")>> }

\* the document lists handed to bulk_index
DocumentLists ==
    {<<>>} \cup {<<d>> : d \in Documents}
    \cup {<<d, e>> : d \in InventoryDocuments, e \in InventoryDocuments}

\* key.endswith('_id')
EndsWithId(key) ==
    key \in {"inventory_id", "store_id", "customer_id", "transaction_id", "item_id"}

\* faulty variant: one priority list for every index, store_id before inventory_id
PriorityFieldsShared(index_name) ==
    <<"id", "item_id", "customer_id", "store_id", "inventory_id">>

\* id_priorities, and the default list of an index that has none
PriorityFields(index_name) ==
    CASE index_name = "inventory" -> <<"inventory_id", "id">>
      [] index_name = "customers" -> <<"customer_id", "id">>
      [] index_name = "transactions" -> <<"transaction_id", "id">>
      [] index_name = "stores" -> <<"store_id", "id">>
      [] index_name = "menu" -> <<"item_id", "id">>
      [] OTHER -> <<"id", "item_id", "customer_id", "transaction_id", "inventory_id", "store_id">>

\* doc[field] when field in doc and doc[field], else ""
Truthy(doc, field) ==
    IF \E i \in 1..Len(doc) : doc[i].key = field /\ doc[i].value # ""
    THEN (doc[CHOOSE i \in 1..Len(doc) : doc[i].key = field]).value
    ELSE ""

\* for field in priority_fields: the first that is set
RECURSIVE FirstByPriority(_, _, _)
FirstByPriority(doc, priority_fields, k) ==
    IF k > Len(priority_fields) THEN ""
    ELSE IF Truthy(doc, priority_fields[k]) # "" THEN Truthy(doc, priority_fields[k])
    ELSE FirstByPriority(doc, priority_fields, k + 1)

\* for key, value in doc.items(): the first key ending in _id that is set
RECURSIVE FirstIdField(_, _)
FirstIdField(doc, i) ==
    IF i > Len(doc) THEN ""
    ELSE IF EndsWithId(doc[i].key) /\ doc[i].value # "" THEN doc[i].value
    ELSE FirstIdField(doc, i + 1)

\* _determine_document_id; "" stands for None
determine_document_id(index_name, doc) ==
    LET by_priority == FirstByPriority(doc, PriorityFields(index_name), 1)
    IN IF by_priority # "" THEN by_priority ELSE FirstIdField(doc, 1)

\* str(uuid.uuid4()) drawn for the k-th document of a call
GeneratedId(k) == <<"uuid4-1", "uuid4-2", "uuid4-3", "uuid4-4">>[k]

\* the _id bulk_index gives every document of the list
BulkIds(index_name, documents) ==
    [k \in 1..Len(documents) |->
        IF determine_document_id(index_name, documents[k]) # ""
        THEN determine_document_id(index_name, documents[k])
        ELSE GeneratedId(k)]

\* the index after the actions that did not fail, applied in order
RECURSIVE IndexAfter(_, _, _, _, _)
IndexAfter(documents, ids, errors, k, index) ==
    IF k > Len(documents) THEN index
    ELSE IndexAfter(documents, ids, errors, k + 1,
            IF k \in errors THEN index ELSE (ids[k] :> documents[k]) @@ index)

\* what POST /_bulk does with the request: the transport fails (requests.post
\* raises), the store answers another status than 200 (always so for a body
\* with no action), or it answers 200 with the set of actions that failed
BulkIndexAnswers(documents) ==
    {[kind |-> "raised", errors |-> {}], [kind |-> "rejected", errors |-> {}]}
    \cup {[kind |-> "answered", errors |-> e] :
            e \in {x \in SUBSET (1..Len(documents)) :
                    documents # <<>> /\ Cardinality(x) <= MaxDocErrors}}

\* bulk_index(index_name, documents) on the index as create_index left it
\* (every load of the repository recreates the index first), once in a run
BulkIndex(index_name, documents) ==
    /\ loaded.outcome = "none"
    /\ \E answer \in BulkIndexAnswers(documents) :
         LET ids == BulkIds(index_name, documents)
             errors == Cardinality(answer.errors)
         IN loaded' =
              [index_name |-> index_name, documents |-> documents, ids |-> ids,
               outcome |->
                  IF answer.kind = "raised" THEN "raised"
                  ELSE IF answer.kind = "rejected" THEN "false"
                  ELSE IF errors = 0 \/ 10 * errors < Len(documents) THEN "true"
                  ELSE "false",
               stored |->
                  IF answer.kind = "answered"
                  THEN IndexAfter(documents, ids, answer.errors, 1, EmptyMap)
                  ELSE EmptyMap]
    /\ UNCHANGED engine_vars

LoadNext == \E index_name \in IndexNames, documents \in DocumentLists : BulkIndex(index_name, documents)

LoadSpec == Init /\ [][LoadNext]_vars

\* =================================================================== claims

\* C1: in every reachable state the stored total_points of every customer is
\* never negative (the seed balances are non-negative).
TotalPointsNeverNegative ==
    \A c \in DOMAIN cust_docs : cust_docs[c].total_points >= 0

\* C2: a redemption of more points than the customer's current total_points
\* ends at once in failure, without a PUT or a bulk write, and the step leaves
\* every stored document as it was.
RedeemOverBalanceRejected ==
    [][\A w \in Workers :
          (/\ clock' = clock + 1
           /\ call'[w].at = clock'
           /\ call'[w].op = "redeem_points"
           /\ call'[w].customer_id \in DOMAIN cust_docs
           /\ call'[w].points > cust_docs[call'[w].customer_id].total_points)
          => (/\ pc'[w] = "done"
              /\ ~result'[w].ok
              /\ io'[w].puts = 0 /\ io'[w].bulks = 0 /\ io'[w].refreshes = 0
              /\ UNCHANGED store_vars)]_vars

\* a redemption of 400 points was refused on a balance below 400
RedeemOverBalanceSeen ==
    \E w \in Workers :
        /\ pc[w] = "done"
        /\ call[w].op = "redeem_points"
        /\ call[w].customer_id \in DOMAIN mem[w].fetched
        /\ call[w].points > mem[w].fetched[call[w].customer_id].total_points
        /\ result[w].message = "Insufficient points"

\* C3: a bulk write answered with status 200 reports success exactly when
\* fewer than 10% of the documents it submitted failed.
BulkToleranceTenPercent ==
    \A w \in Workers :
        (batch[w].sent /\ batch[w].http_ok)
        => (batch[w].success <=> 10 * Cardinality(batch[w].errors) < Len(batch[w].docs))

\* -------------------------------------------------- what the claims speak of
IsBulk(w) == call[w].op = "create_bulk_transactions"

IsOrder(w) == call[w].op = "create_transaction"

\* the order requests of a call whose customer the fetch returned, in array order
FoundOrders(w) ==
    SelectSeq(call[w].orders, LAMBDA r : r.customer_id \in DOMAIN mem[w].fetched)

\* the documents a worker's batch carried for one index, in the order sent
BatchDocs(w, index) == SelectSeq(batch[w].docs, LAMBDA d : d.index = index)

\* the sum of price x quantity over the lines at the positions in idx
RECURSIVE LinesSum(_, _)
LinesSum(items, idx) ==
    IF idx = {} THEN 0
    ELSE LET k == CHOOSE x \in idx : TRUE
         IN items[k].price * items[k].quantity + LinesSum(items, idx \ {k})

ItemsSum(items) == LinesSum(items, 1..Len(items))

\* what the orders before the k-th, of the k-th's customer, spent
RECURSIVE SpentBefore(_, _, _)
SpentBefore(orders, k, j) ==
    IF j >= k THEN 0
    ELSE (IF orders[j].customer_id = orders[k].customer_id THEN ItemsSum(orders[j].items) ELSE 0)
         + SpentBefore(orders, k, j + 1)

\* how many of the orders are the customer's, and what they spent
OrdersOf(orders, customer_id) ==
    {k \in 1..Len(orders) : orders[k].customer_id = customer_id}

RECURSIVE SpentAt(_, _)
SpentAt(orders, idx) ==
    IF idx = {} THEN 0
    ELSE LET k == CHOOSE x \in idx : TRUE
         IN ItemsSum(orders[k].items) + SpentAt(orders, idx \ {k})

\* the tier function as the claims state it
TierOfSpending(annual_spending) ==
    CASE annual_spending >= 5000 -> "BeeElite"
      [] annual_spending >= 2000 /\ annual_spending < 5000 -> "BeeFan"
      [] OTHER -> "BeeBuddy"

FailedTransactionAppliesNothing ==
    [][\A w \in Workers :
          (/\ IsOrder(w)
           /\ pc[w] = "write"
           /\ pc'[w] = "done"
           /\ result'[w].message = "Failed to process transaction")
          => UNCHANGED <<cust_docs, inv_docs, txn_docs>>]_vars

\* both orders wrote their customer document
WroteCustomer(w) ==
    /\ batch[w].sent /\ batch[w].http_ok
    /\ \E k \in 1..Len(batch[w].docs) :
          batch[w].docs[k].index = "customers" /\ k \notin batch[w].errors

\* two create_transaction calls of one customer that both read the same
\* customer document, both wrote theirs and both reported success
Overlapped(w, v) ==
    /\ w # v
    /\ IsOrder(w) /\ IsOrder(v)
    /\ pc[w] = "done" /\ pc[v] = "done"
    /\ result[w].ok /\ result[v].ok
    /\ call[w].customer_id = call[v].customer_id
    /\ mem[w].fetched = mem[v].fetched
    /\ WroteCustomer(w) /\ WroteCustomer(v)
    /\ batch[w].seq < batch[v].seq

\* C6: when two create_transaction calls of one customer both fetch before
\* either writes and both succeed, the stored customer is the later write
\* alone: it holds one order's points, spending and count, not both.
LostUpdateUnderInterleaving ==
    \A w, v \in Workers :
        Overlapped(w, v)
        => LET c == call[v].customer_id
               before == mem[v].fetched[c]
           IN /\ cust_docs[c] = mem[v].customers[c]
              /\ cust_docs[c].total_orders = before.total_orders + 1
              /\ cust_docs[c].annual_spending =
                    before.annual_spending + result[v].data.order_total
              /\ cust_docs[c].total_points =
                    before.total_points + result[v].data.points_earned

\* two overlapping successful orders of one customer, the earlier of which
\* earned points that the stored customer does not hold
LostUpdateSeen ==
    \E w, v \in Workers :
        /\ Overlapped(w, v)
        /\ result[w].data.points_earned > 0
        /\ cust_docs[call[v].customer_id].total_points
             < mem[v].fetched[call[v].customer_id].total_points
               + result[w].data.points_earned + result[v].data.points_earned

\* C7: every customer document that create_transaction or
\* create_bulk_transactions submits carries the tier of its annual_spending
\* (>= 5000 BeeElite, >= 2000 BeeFan, else BeeBuddy), and that annual_spending
\* is the fetched one plus the totals of the customer's orders of the call.
WrittenTierMatchesSpending ==
    \A w \in Workers :
        (batch[w].sent /\ (IsOrder(w) \/ IsBulk(w)))
        => \A k \in 1..Len(batch[w].docs) :
              LET d == batch[w].docs[k]
              IN d.index = "customers"
                 => /\ d.doc.tier = TierOfSpending(d.doc.annual_spending)
                    /\ d.doc.annual_spending =
                         mem[w].fetched[d.id].annual_spending
                         + SpentAt(FoundOrders(w), OrdersOf(FoundOrders(w), d.id))

\* a customer document was written with a tier above the fetched one
TierUpgradeWritten ==
    \E w \in Workers :
        /\ batch[w].sent /\ batch[w].success
        /\ \E k \in 1..Len(batch[w].docs) :
              LET d == batch[w].docs[k]
              IN /\ d.index = "customers"
                 /\ k \notin batch[w].errors
                 /\ d.doc.tier = "BeeElite"
                 /\ mem[w].fetched[d.id].tier = "BeeFan"

\* rate per 100 pesos and tier multiplier (in tenths) as the claim states them
ClaimedPoints(order_total, channel, tier) ==
    LET rate == IF channel = "dine-in" THEN 10 ELSE 15
        tenths == CASE tier = "BeeBuddy" -> 10 [] tier = "BeeFan" -> 12 [] tier = "BeeElite" -> 15
    IN (((order_total \div 100) * rate) * tenths) \div 10

\* C8: for every order total, channel and tier, the points of an order are
\* floor(floor(order_total / 100) x rate x multiplier), at the tier the
\* customer held before the order.
PointsAreFlooredProduct ==
    \A w \in Workers :
        (IsOrder(w) /\ Len(mem[w].txns) = 1)
        => LET t == mem[w].txns[1]
           IN t.points_earned =
                ClaimedPoints(t.order_total, t.channel, mem[w].fetched[t.customer_id].tier)

\* the sequences that order the items of a list in every possible way
Reorderings(items) ==
    {[k \in 1..Len(items) |-> items[f[k]]] : f \in Permutations(1..Len(items))}

\* C9: the order_total recorded in a transaction and returned to the caller is
\* the sum of price x quantity over the order's items, whatever their order.
OrderTotalIsSumOfLines ==
    /\ \A w \in Workers : \A k \in 1..Len(mem[w].txns) :
          \A items \in Reorderings(mem[w].txns[k].items) :
              mem[w].txns[k].order_total = ItemsSum(items)
    /\ \A t \in txn_docs : t.order_total = ItemsSum(t.items)
    /\ \A w \in Workers :
          (IsOrder(w) /\ pc[w] = "done" /\ result[w].ok)
          => result[w].data.order_total = ItemsSum(call[w].orders[1].items)

\* a stored transaction of two different lines, one of them of quantity 30
TwoLineOrderStored ==
    \E t \in txn_docs :
        /\ Len(t.items) = 2
        /\ t.items[1] # t.items[2]
        /\ \E k \in 1..2 : t.items[k].quantity > 1
        /\ \E w \in Workers : pc[w] = "done" /\ result[w].ok /\ IsOrder(w)
                /\ result[w].data.transaction_id = t.transaction_id

\* C10: the current_stock of every inventory record, stored, searchable or on
\* its way to the store, is never negative.
StockNeverNegative ==
    /\ \A i \in DOMAIN inv_docs : inv_docs[i].current_stock >= 0
    /\ \A i \in DOMAIN inv_index : inv_index[i].current_stock >= 0
    /\ \A w \in Workers : \A k \in 1..Len(mem[w].inv_updates) :
          mem[w].inv_updates[k].doc.current_stock >= 0

\* an order of 30 units was written against a stock of 20, leaving 0
StockFlooredAtZero ==
    \E w \in Workers : \E k \in 1..Len(batch[w].docs) :
        /\ batch[w].http_ok /\ k \notin batch[w].errors
        /\ batch[w].docs[k].index = "inventory"
        /\ inv_docs[batch[w].docs[k].id].current_stock = 0
        /\ \E j \in 1..Len(call[w].orders) : \E l \in 1..Len(call[w].orders[j].items) :
              /\ call[w].orders[j].items[l].name = inv_docs[batch[w].docs[k].id].item_name
              /\ call[w].orders[j].items[l].quantity > 20

\* the status of a stock against a reorder point as the claims state it
ClaimedStatus(current_stock, reorder_point) ==
    CASE 2 * current_stock <= reorder_point -> "Critical"
      [] 2 * current_stock > reorder_point /\ current_stock <= reorder_point -> "Low"
      [] current_stock > reorder_point /\ current_stock <= 2 * reorder_point -> "Adequate"
      [] OTHER -> "Good"

\* C11: every inventory document prepared for or sent in a batch carries the
\* status that the threshold rule gives for the current_stock and
\* reorder_point of that same document.
InventoryStatusIsThreshold ==
    \A w \in Workers :
        /\ \A k \in 1..Len(mem[w].inv_updates) :
              LET d == mem[w].inv_updates[k].doc
              IN d.status = ClaimedStatus(d.current_stock, d.reorder_point)
        /\ \A k \in 1..Len(batch[w].docs) :
              LET d == batch[w].docs[k]
              IN d.index = "inventory"
                 => d.doc.status = ClaimedStatus(d.doc.current_stock, d.doc.reorder_point)

\* an inventory record read as Low was written as Critical, and another one
\* was written as Good
InventoryStatusChangeWritten ==
    \E w \in Workers : \E k, j \in 1..Len(batch[w].docs) :
        /\ batch[w].http_ok /\ k \notin batch[w].errors /\ j \notin batch[w].errors
        /\ batch[w].docs[k].index = "inventory" /\ batch[w].docs[j].index = "inventory"
        /\ batch[w].docs[k].doc.status = "Critical"
        /\ SeedInventory[batch[w].docs[k].id].status = "Low"
        /\ batch[w].docs[j].doc.status = "Good"

\* C12: a create_transaction or create_bulk_transactions call that reports
\* success has sent exactly one bulk write and exactly one refresh request.
SuccessIsOneWriteOneRefresh ==
    \A w \in Workers :
        ((IsOrder(w) \/ IsBulk(w)) /\ pc[w] = "done" /\ result[w].ok)
        => io[w].bulks = 1 /\ io[w].refreshes = 1

\* a successful bulk call of two orders that sent six documents or more, and
\* a successful single order
LargeBatchSucceeded ==
    /\ \E w \in Workers :
          /\ IsBulk(w) /\ pc[w] = "done" /\ result[w].ok
          /\ Len(call[w].orders) = 2 /\ Len(batch[w].docs) >= 6
    /\ \E w \in Workers :
          /\ IsOrder(w) /\ pc[w] = "done" /\ result[w].ok /\ Len(batch[w].docs) >= 3

\* the round trips a request has made to the store so far
Trips(w) == io[w].gets + io[w].searches + io[w].bulks + io[w].refreshes + io[w].puts

\* the number of order lines of the orders at the positions in idx
RECURSIVE LineCount(_, _)
LineCount(orders, idx) ==
    IF idx = {} THEN 0
    ELSE LET k == CHOOSE x \in idx : TRUE
         IN Len(orders[k].items) + LineCount(orders, idx \ {k})

\* C13 (as stated): the round trips of a bulk call stay within a constant that
\* the number of orders and order lines does not move: the four of a call of
\* one single-line order (customer fetch, one lookup, bulk write, refresh).
BulkRoundTripsConstant ==
    \A w \in Workers : IsBulk(w) => Trips(w) <= 4

\* C13 (amended): a bulk call makes one customer fetch, one inventory lookup
\* for every order line of the orders whose customer was fetched, one bulk
\* write and, when the write succeeds, one refresh: the writes do not grow
\* with the orders, the lookups grow with the order lines.
BulkRoundTripsPerLine ==
    \A w \in Workers :
        (IsBulk(w) /\ pc[w] = "done" /\ batch[w].sent)
        => LET found == FoundOrders(w)
           IN /\ io[w].gets = 0 /\ io[w].puts = 0
              /\ io[w].searches = 1 + LineCount(found, 1..Len(found))
              /\ io[w].bulks = 1
              /\ io[w].refreshes = (IF batch[w].success THEN 1 ELSE 0)

\* a successful bulk call of two orders of two lines each: seven round trips
BulkLookupsPerLineSeen ==
    \E w \in Workers :
        /\ IsBulk(w) /\ pc[w] = "done" /\ result[w].ok
        /\ Len(FoundOrders(w)) = 2
        /\ io[w].searches = 5 /\ Trips(w) = 7

\* C14: the step that starts a create_transaction or a redeem_points that
\* passes the route's validation, for a customer id that is not in the store,
\* ends the request with "Customer not found" after the one fetch, with no
\* bulk write, PUT or refresh, and leaves every stored document as it was.
UnknownCustomerNotFound ==
    [][\A w \in Workers :
          (/\ clock' = clock + 1
           /\ call'[w].at = clock'
           /\ call'[w].op \in {"create_transaction", "redeem_points"}
           /\ call'[w].customer_id \notin DOMAIN cust_docs
           /\ call'[w].customer_id # ""
           /\ call'[w].op = "create_transaction" => call'[w].orders[1].items # <<>>
           /\ call'[w].op = "redeem_points" => call'[w].points > 0)
          => (/\ pc'[w] = "done"
              /\ result'[w] = Result(FALSE, "Customer not found", NoData)
              /\ io'[w].gets = 1
              /\ io'[w].bulks = 0 /\ io'[w].puts = 0 /\ io'[w].refreshes = 0
              /\ UNCHANGED store_vars)]_vars

\* an order and a redemption of ghost001 ended with "Customer not found"
\* although the store answered every request
UnknownCustomerSeen ==
    /\ faults = 0
    /\ \E w, v \in Workers :
          /\ pc[w] = "done" /\ IsOrder(w) /\ call[w].customer_id = "ghost001"
          /\ result[w].message = "Customer not found"
          /\ pc[v] = "done" /\ call[v].op = "redeem_points" /\ call[v].customer_id = "ghost001"
          /\ result[v].message = "Customer not found"

\* whether the route's validation refuses the request a worker serves
Refused(c) ==
    \/ c.op = "create_transaction" /\ (c.orders[1].items = <<>> \/ c.customer_id = "")
    \/ c.op = "redeem_points" /\ c.points <= 0

\* C16: the step that starts a transaction request with no items or no
\* customer id, or a redemption of a non-positive amount, ends the request
\* with an error, sends no request of any kind to the store and leaves every
\* stored document as it was.
InvalidRequestRejectedBeforeRead ==
    [][\A w \in Workers :
          (clock' = clock + 1 /\ call'[w].at = clock' /\ Refused(call'[w]))
          => (/\ pc'[w] = "done"
              /\ ~result'[w].ok /\ result'[w].message # ""
              /\ io'[w] = NoIo
              /\ faults' = faults
              /\ UNCHANGED store_vars)]_vars

\* an order with no items and a redemption of zero points were both refused
InvalidRequestsSeen ==
    \E w, v \in Workers :
        /\ pc[w] = "done" /\ IsOrder(w) /\ call[w].orders[1].items = <<>>
        /\ result[w].message = "Missing required fields"
        /\ pc[v] = "done" /\ call[v].op = "redeem_points" /\ call[v].points = 0
        /\ result[v].message = "Invalid points amount"

\* C15: a create_transaction any of whose round trips to the store failed
\* (the customer fetch included) returns the generic processing failure.
StoreFailureIsProcessingFailure ==
    \A w \in Workers :
        (IsOrder(w) /\ pc[w] = "done" /\ io[w].failed > 0)
        => result[w] = Result(FALSE, "Failed to process transaction", NoData)

\* the value a document holds under a field name, "" when unset or absent
ValueUnder(doc, name) ==
    IF \E i \in 1..Len(doc) : doc[i].key = name
    THEN (doc[CHOOSE i \in 1..Len(doc) : doc[i].key = name]).value
    ELSE ""

ClaimedPriority ==
    [inventory |-> <<"inventory_id", "id">>, customers |-> <<"customer_id", "id">>,
     transactions |-> <<"transaction_id", "id">>, stores |-> <<"store_id", "id">>,
     menu |-> <<"item_id", "id">>]

Least(S) == CHOOSE x \in S : \A y \in S : x <= y

\* C18: for the five index kinds, the id of a document is its first non-empty
\* field of the kind's priority list; with none, its first non-empty field
\* whose name ends in _id; with none, a generated identifier, which is no
\* value of the document.
BulkIdFollowsPriority ==
    loaded.index_name \in DOMAIN ClaimedPriority
    => \A k \in 1..Len(loaded.documents) :
          LET doc == loaded.documents[k]
              list == ClaimedPriority[loaded.index_name]
              listed == {i \in 1..Len(list) : ValueUnder(doc, list[i]) # ""}
              suffixed == {i \in 1..Len(doc) : EndsWithId(doc[i].key) /\ doc[i].value # ""}
          IN IF listed # {} THEN loaded.ids[k] = ValueUnder(doc, list[Least(listed)])
             ELSE IF suffixed # {} THEN loaded.ids[k] = doc[Least(suffixed)].value
             ELSE /\ \A i \in 1..Len(doc) : loaded.ids[k] # doc[i].value
                  /\ \A j \in 1..Len(loaded.documents) : j # k => loaded.ids[j] # loaded.ids[k]

\* a customer document whose id field comes first got its customer_id for an
\* id
PriorityOverDictOrderSeen ==
    /\ loaded.index_name = "customers" /\ loaded.outcome = "true"
    /\ Len(loaded.documents) = 1 /\ Len(loaded.documents[1]) = 3
    /\ loaded.documents[1][1] = Field("id", "7")
    /\ loaded.documents[1][2] = Field("store_id", "store_001")
    /\ loaded.documents[1][3] = Field("customer_id", "melvin001")
    /\ loaded.ids = <<"melvin001">>

\* C19: the step on which a redeem_points of r points succeeds stores, for a
\* customer whose balance the call read as b, a document with total_points
\* = b - r and points_redeemed_ytd r above the one read, b >= r, and the
\* new_balance it returns is the total_points the store then holds.
RedeemStoresDifference ==
    [][\A w \in Workers :
          (pc[w] = "put" /\ pc'[w] = "done" /\ result'[w].ok)
          => LET c == call[w].customer_id
                 r == call[w].points
                 read == mem[w].fetched[c]
                 b == read.total_points
             IN /\ b >= r /\ r > 0
                /\ cust_docs'[c].total_points = b - r
                /\ cust_docs'[c].points_redeemed_ytd = read.points_redeemed_ytd + r
                /\ result'[w].data.new_balance = cust_docs'[c].total_points
                /\ cust_docs'[c] = [read EXCEPT !.total_points = b - r,
                                                !.points_redeemed_ytd = @ + r,
                                                !.last_activity = call[w].at]]_vars

\* melvin001, with 324 points and 356 redeemed, redeemed 200: the store holds
\* 124 and 556, and 124 was returned
RedemptionStored ==
    \E w \in Workers :
        /\ pc[w] = "done" /\ call[w].op = "redeem_points" /\ result[w].ok
        /\ call[w].customer_id = "melvin001" /\ call[w].points = 200
        /\ mem[w].fetched["melvin001"].total_points = 324
        /\ cust_docs["melvin001"].total_points = 124
        /\ cust_docs["melvin001"].points_redeemed_ytd = 556
        /\ result[w].data.new_balance = 124

\* the orders of the request of worker w that the handler reported: one
\* transaction document was built for each
Reported(w) == mem[w].txns

\* C20: every order that a successful create_transaction or
\* create_bulk_transactions reported has exactly one transaction document in
\* the store, and no step overwrites or deletes a transaction document that
\* the store holds.
SuccessfulOrderStoredOnceAndKept ==
    /\ [](\A w \in Workers :
            (pc[w] = "done" /\ result[w].ok
             /\ call[w].op \in {"create_transaction", "create_bulk_transactions"})
            => \A k \in 1..Len(Reported(w)) :
                  /\ Reported(w)[k] \in txn_docs
                  /\ Cardinality({t \in txn_docs :
                         t.transaction_id = Reported(w)[k].transaction_id}) = 1)
    /\ [][\A t \in txn_docs : t \in txn_docs']_vars

\* create_transaction with every write succeeding, run on the orders of
\* customer c among reqs from the i-th on, one after another: the customer
\* document the last of them stores
RECURSIVE SequentialCustomer(_, _, _, _, _)
SequentialCustomer(customer, reqs, i, c, now) ==
    IF i > Len(reqs) THEN customer
    ELSE IF reqs[i].customer_id # c THEN SequentialCustomer(customer, reqs, i + 1, c, now)
    ELSE LET order_total == OrderTotal(reqs[i].items)
             customer_tier == customer.tier
             points_earned == calculate_points(order_total, reqs[i].channel, customer_tier)
             new_annual == customer.annual_spending + order_total
         IN SequentialCustomer(
                [customer EXCEPT !.total_points = @ + points_earned,
                                 !.points_earned_ytd = @ + points_earned,
                                 !.annual_spending = new_annual,
                                 !.tier = check_tier_upgrade(new_annual),
                                 !.last_activity = now,
                                 !.total_orders = @ + 1],
                reqs, i + 1, c, now)

\* the fields of a customer document that the two paths are compared on
LoyaltyState(customer) ==
    <<customer.total_points, customer.points_earned_ytd, customer.annual_spending,
      customer.tier, customer.total_orders>>

\* C21: every customer document that create_bulk_transactions submits equals,
\* on total_points, points_earned_ytd, annual_spending, tier and
\* total_orders, the document reached by running the request's orders of
\* that customer through create_transaction one after another, in array
\* order, from the state the request fetched.
BulkEqualsSequential ==
    \A w \in Workers :
        (IsBulk(w) /\ batch[w].sent)
        => \A k \in 1..Len(batch[w].docs) :
              batch[w].docs[k].index = "customers"
              => LET c == batch[w].docs[k].id
                 IN /\ c \in DOMAIN mem[w].fetched
                    /\ LoyaltyState(batch[w].docs[k].doc)
                         = LoyaltyState(SequentialCustomer(mem[w].fetched[c], call[w].orders,
                                                           1, c, call[w].at))

\* two orders of melvin001 in one request: the first earned 120 points as a
\* BeeBuddy and lifted the tier, the second earned 144 as a BeeFan, and the
\* document submitted holds 588 points
BulkLaterOrderAtNewTier ==
    \E w \in Workers :
        /\ IsBulk(w) /\ batch[w].sent /\ Len(call[w].orders) = 2
        /\ call[w].orders[1].customer_id = "melvin001"
        /\ call[w].orders[2].customer_id = "melvin001"
        /\ "melvin001" \in DOMAIN mem[w].fetched /\ Len(mem[w].txns) = 2
        /\ mem[w].fetched["melvin001"].tier = "BeeBuddy"
        /\ mem[w].txns[1].points_earned = 120
        /\ mem[w].txns[2].points_earned = 144
        /\ \E k \in 1..Len(batch[w].docs) :
              /\ batch[w].docs[k].index = "customers"
              /\ batch[w].docs[k].doc.tier = "BeeFan"
              /\ batch[w].docs[k].doc.total_points = 588

\* the fields of a customer document that a redemption leaves alone
EarnState(customer) ==
    <<customer.annual_spending, customer.tier, customer.points_earned_ytd,
      customer.total_orders>>

RECURSIVE LinesOf(_, _)
LinesOf(orders, k) ==
    IF k > Len(orders) THEN <<>>
    ELSE [i \in 1..Len(orders[k].items) |->
             [store_id |-> orders[k].store_id, name |-> orders[k].items[i].name]]
         \o LinesOf(orders, k + 1)

\* the inventory records of a store and an item name
RecordsOf(line) ==
    {i \in DOMAIN inv_docs :
        inv_docs[i].store_id = line.store_id /\ inv_docs[i].item_name = line.name}

\* the inventory entries of a batch, in the order they were added
InventoryEntries(docs) == SelectSeq(docs, LAMBDA d : d.index = "inventory")

\* C23: in a create_transaction or create_bulk_transactions whose round trips
\* were all answered and whose documents were all indexed, a line whose item
\* has no inventory record for the order's store adds no inventory entry and
\* raises no error: the request ends with success, the batch it submitted
\* holds the transaction of every order, the document of every customer and,
\* in line order, one inventory entry for each line that has a record.
MissingRecordLineSkipped ==
    \A w \in Workers :
        (/\ (IsOrder(w) \/ IsBulk(w)) /\ pc[w] = "done"
         /\ FoundOrders(w) # <<>> /\ io[w].failed = 0 /\ batch[w].errors = {})
        => LET lines == SelectSeq(LinesOf(FoundOrders(w), 1), LAMBDA l : RecordsOf(l) # {})
               entries == InventoryEntries(batch[w].docs)
           IN /\ result[w].ok
              /\ batch[w].sent
              /\ \A k \in 1..Len(FoundOrders(w)) :
                    /\ batch[w].docs[k].index = "transactions"
                    /\ batch[w].docs[k].doc.items = FoundOrders(w)[k].items
              /\ \A k \in 1..Len(FoundOrders(w)) :
                    \E j \in 1..Len(batch[w].docs) :
                        /\ batch[w].docs[j].index = "customers"
                        /\ batch[w].docs[j].id = FoundOrders(w)[k].customer_id
              /\ Len(entries) = Len(lines)
              /\ \A k \in 1..Len(lines) : entries[k].id \in RecordsOf(lines[k])

\* the rank of a tier: Buddy < Fan < Elite
TierRank(tier) == IF tier = "BeeElite" THEN 3 ELSE IF tier = "BeeFan" THEN 2 ELSE 1

\* C24: no step lowers the stored annual_spending of a customer, and none
\* moves the stored tier of a customer down.
SpendingAndTierNeverDrop ==
    [][\A c \in DOMAIN cust_docs :
          /\ cust_docs'[c].annual_spending >= cust_docs[c].annual_spending
          /\ TierRank(cust_docs'[c].tier) >= TierRank(cust_docs[c].tier)]_vars

\* C25: no step lowers the stored points_earned_ytd or points_redeemed_ytd of
\* a customer, and neither is ever stored negative.
YearlyPointsNeverDrop ==
    [][\A c \in DOMAIN cust_docs :
          /\ cust_docs'[c].points_earned_ytd >= cust_docs[c].points_earned_ytd
          /\ cust_docs'[c].points_redeemed_ytd >= cust_docs[c].points_redeemed_ytd
          /\ cust_docs'[c].points_earned_ytd >= 0
          /\ cust_docs'[c].points_redeemed_ytd >= 0]_vars

\* ------------------------------------- the resolver on idle inventory items
\* the seeded inventory with the Regular Fries record consumed at a given
\* daily rate; create_sample_inventory writes now + 30 days for a rate that
\* is not positive
InventoryConsumedAt(daily) ==
    [SeedInventory EXCEPT
        !["inv_store_001_08"] = InventoryItem("store_001", "Regular Fries", 80, 30, daily, 0)]

DailyRates == {25, 0, -5}

ResolverInit ==
    /\ \E daily \in DailyRates :
          /\ inv_docs = InventoryConsumedAt(daily)
          /\ inv_index = InventoryConsumedAt(daily)
    /\ cust_docs = SeedCustomers
    /\ cust_index = SeedCustomers
    /\ txn_docs = {}
    /\ pc = [w \in Workers |-> "idle"]
    /\ call = [w \in Workers |-> NoCall]
    /\ mem = [w \in Workers |-> NoMem]
    /\ batch = [w \in Workers |-> NoBatch]
    /\ result = [w \in Workers |-> NoResult]
    /\ io = [w \in Workers |-> NoIo]
    /\ clock = 0
    /\ uuid = 0
    /\ writes = 0
    /\ faults = 0
    /\ loaded = NoLoad

\* one worker serving create_transaction requests, one after another
ResolverNext ==
    \/ \E req \in OrderRequests : CreateTransaction("w1", req)
    \/ PrepareInventoryUpdates("w1")
    \/ ExecuteBulkUpdate("w1")
    \/ RefreshIndex("w1")

ResolverSpec == ResolverInit /\ [][ResolverNext]_vars

TierUpgradedIffHigher ==
    \A w \in Workers :
        (IsOrder(w) /\ pc[w] = "done" /\ result[w].ok)
        => LET c == call[w].customer_id
           IN /\ result[w].data.tier_upgraded
                    = (TierRank(mem[w].customers[c].tier) > TierRank(mem[w].fetched[c].tier))
              /\ result[w].data.new_tier = mem[w].customers[c].tier

\* C28: a request that starts while no other request is in progress, after
\* requests that all succeeded, reads every customer as the store holds it,
\* that is, as the last successful request wrote it: a bulk request that
\* starts right after a successful redemption included.
SequentialReadsSeeLastWrite ==
    [][\A w \in Workers :
          (/\ clock' = clock + 1 /\ call'[w].at = clock'
           /\ faults' = 0
           /\ \A v \in Workers \ {w} : pc[v] \in {"idle", "done"})
          => \A c \in DOMAIN mem'[w].fetched : mem'[w].fetched[c] = cust_docs[c]]_vars

\* the total quantity of the lines of an order, from the k-th on, that the
\* lookup matches with inventory record i
RECURSIVE QuantityOfItems(_, _, _, _)
QuantityOfItems(items, k, store_id, i) ==
    IF k > Len(items) THEN 0
    ELSE (IF /\ inv_docs[i].store_id = store_id
             /\ Terms(inv_docs[i].item_name) \cap Terms(items[k].name) # {}
          THEN items[k].quantity ELSE 0)
         + QuantityOfItems(items, k + 1, store_id, i)

\* the same over the orders of a request, from the k-th on
RECURSIVE QuantityOfOrders(_, _, _)
QuantityOfOrders(orders, k, i) ==
    IF k > Len(orders) THEN 0
    ELSE QuantityOfItems(orders[k].items, 1, orders[k].store_id, i)
         + QuantityOfOrders(orders, k + 1, i)

\* C29: the write of a create_transaction or create_bulk_transactions whose
\* round trips were all answered and whose documents were all indexed leaves
\* every inventory record with current_stock = max(0, the stock it had
\* before the write minus the total quantity of the request's order lines
\* that match it); stated for the first request the engine serves, which no
\* other request overlaps.
StockIsPriorMinusTotal ==
    [][\A w \in Workers :
          (/\ pc[w] = "write" /\ pc'[w] = "refresh"
           /\ clock = 1
           /\ io'[w].failed = 0 /\ batch'[w].errors = {})
          => \A i \in DOMAIN inv_docs :
                inv_docs'[i].current_stock
                  = MaxOf(0, inv_docs[i].current_stock
                               - QuantityOfOrders(FoundOrders(w), 1, i))]_vars

\* whether worker w holds the result of a successful redemption for customer c
Redeemed(w, c) ==
    /\ call[w].op = "redeem_points" /\ call[w].customer_id = c
    /\ pc[w] = "done" /\ result[w].ok

\* C30 as stated: when the only two requests served are redemptions for the
\* same customer and both report success, their points together do not
\* exceed the balance the customer had before them.
NoDoubleRedemption ==
    \A c \in DOMAIN SeedCustomers :
        (Redeemed("w1", c) /\ Redeemed("w2", c))
        => call["w1"].points + call["w2"].points <= SeedCustomers[c].total_points

\* C30, amended: each redemption that reports success is of no more than the
\* balance its own call read, and returns that balance minus its points,
\* which is not negative; nothing ties it to the other call's redemption.
RedemptionWithinBalanceRead ==
    \A w \in Workers, c \in DOMAIN SeedCustomers :
        Redeemed(w, c)
        => /\ call[w].points <= mem[w].fetched[c].total_points
           /\ result[w].data.new_balance = mem[w].fetched[c].total_points - call[w].points
           /\ result[w].data.new_balance >= 0

\* two redemptions of 200 points each read melvin001's 324 points and both
\* succeeded; the store holds 124
SamePointsRedeemedTwice ==
    /\ Redeemed("w1", "melvin001") /\ Redeemed("w2", "melvin001")
    /\ call["w1"].points = 200 /\ call["w2"].points = 200
    /\ mem["w1"].fetched["melvin001"].total_points = 324
    /\ mem["w2"].fetched["melvin001"].total_points = 324
    /\ cust_docs["melvin001"].total_points = 124

====
